---- MODULE Spec2Model ----
(***************************************************************************)
(* fetch-gh-release-asset: one run of main() in its two variants,          *)
(* src/index.ts ("index") and src/unnamed/part_000 ("part000").            *)
(*                                                                         *)
(* The run is a JavaScript task on the Node event loop.  One action of     *)
(* this module is one run-to-completion step: the code between two         *)
(* suspension points.  Continuations of promises that are already settled  *)
(* (microtasks) run before any I/O completion is delivered, so the I/O     *)
(* actions of a download are enabled only while main has no continuation   *)
(* ready to run (MainBlocked).                                             *)
(*                                                                         *)
(* Strings are sequences of one-character strings, so that concatenation,  *)
(* splitting and searching are computed and not assumed.                   *)
(*                                                                         *)
(* writeFile is not one step: it opens the file (creating or truncating    *)
(* it), writes the bytes from the start of the file, and closes it, each a *)
(* file operation of its own that the operations of other downloads can    *)
(* come between.                                                           *)
(*                                                                         *)
(* A rejected promise that nothing handles ends the process when the       *)
(* turn it was rejected in is over, or is only reported, depending on the  *)
(* runtime (unhandledRejections: "throw", the default from Node 15 on, or  *)
(* "warn").  The promise of baseFetchFile is dropped by its caller and     *)
(* main is started with `void main()`, so a rejection of either is one.    *)
(*                                                                         *)
(* Not modelled: the log lines of core.warning other than the diagnostic   *)
(* of a refused response, failures of mkdir/writeFile themselves, a write  *)
(* split into several chunks, and the values (as opposed to the names) of  *)
(* the published outputs.                                                  *)
(***************************************************************************)
EXTENDS Integers, Sequences, FiniteSets, TLC

VARIABLES
    variant,          \* which source file runs: "index" or "part000"
    inputRepoString,  \* core.getInput('repo')
    inputVersion,     \* core.getInput('version')
    token,            \* core.getInput('token')
    inputTarget,      \* core.getInput('target')
    file,             \* core.getInput('file')
    usesRegex,        \* core.getBooleanInput('regex')
    onlySourceZip,    \* core.getBooleanInput('only-source-zip')
    releaseAssets,    \* release.data.assets as the platform holds them
    unhandledRejections, \* what the runtime does with an unhandled rejection
    proc,             \* the process: "running" or "exited"
    pc,               \* position of main
    mainError,        \* the error main threw, "" when none
    repoRef,          \* result of getRepo
    lookups,          \* number of release lookup requests issued
    lookupRequest,    \* the endpoint call getRelease made
    assets,           \* release.data.assets.filter(assetFilterFn)
    filterEvaluated,  \* whether the asset filter was applied
    idx,              \* position of the for..of loop in assets
    awaited,          \* state of the promise main is awaiting
    downloads,        \* one record per call of fetchAssetFile / fetchSourceFile
    fs,               \* files: set of <<path, content>>
    dirs,             \* directories mkdir has made sure of
    outputs,          \* names given to core.setOutput
    warnings,         \* downloads whose refused response body was logged
    unhandled         \* downloads whose baseFetchFile promise rejected unobserved

vars == <<variant, inputRepoString, inputVersion, token, inputTarget, file,
          usesRegex, onlySourceZip, releaseAssets, pc, mainError, repoRef,
          lookups, lookupRequest, assets, filterEvaluated,
          idx, awaited, downloads, fs, dirs, outputs, warnings, unhandled,
          unhandledRejections, proc>>

inputVars == <<variant, inputRepoString, inputVersion, token, inputTarget, file,
               usesRegex, onlySourceZip, releaseAssets, unhandledRejections>>

----------------------------------------------------------------------------
(* Bounds *)

MaxAssets == 2

(* Program constants *)

\* retries: 5 in the object built next to the call of baseFetchFile
maxAttempts == 5

----------------------------------------------------------------------------
(* Strings *)

RECURSIVE Split(_, _)
\* String.prototype.split(sep) for a one-character separator
Split(s, sep) ==
    IF \A i \in 1..Len(s) : s[i] # sep
    THEN <<s>>
    ELSE LET i == CHOOSE k \in 1..Len(s) :
                      s[k] = sep /\ \A j \in 1..(k - 1) : s[j] # sep
         IN  <<SubSeq(s, 1, i - 1)>> \o Split(SubSeq(s, i + 1, Len(s)), sep)

\* RegExp(pattern).test(name) for a pattern of literal characters:
\* the pattern occurs somewhere in name
RegExpTest(pattern, name) ==
    \E i \in 1..(Len(name) + 1) :
        /\ i + Len(pattern) - 1 <= Len(name)
        /\ SubSeq(name, i, i + Len(pattern) - 1) = pattern

Digits == <<"0", "1", "2", "3", "4", "5", "6", "7", "8", "9">>

IsDigit(c) == \E n \in 1..10 : Digits[n] = c

DigitVal(c) == (CHOOSE n \in 1..10 : Digits[n] = c) - 1

RECURSIVE DecVal(_)
\* the value of a string of decimal digits, 0 for the empty string
DecVal(s) ==
    IF s = << >> THEN 0
    ELSE 10 * DecVal(SubSeq(s, 1, Len(s) - 1)) + DigitVal(s[Len(s)])

AllDigits(s) == \A i \in 1..Len(s) : IsDigit(s[i])

\* 'Infinity'
S_Infinity == <<"I", "n", "f", "i", "n", "i", "t", "y">>

\* the number NaN
NaN == [nan |-> TRUE, inf |-> FALSE, int |-> 0, frac |-> << >>]

\* Number(s) for a string without whitespace, sign, exponent or radix
\* prefix, and with no more digits than a double holds exactly (15): '' is
\* 0; 'Infinity' is Infinity; digits, digits '.' digits, digits '.',
\* '.' digits are decimal literals; anything else is NaN.  int is the
\* integer part and frac the digits after the point.
Number(s) ==
    IF s = << >> THEN [nan |-> FALSE, inf |-> FALSE, int |-> 0, frac |-> << >>]
    ELSE IF s = S_Infinity
         THEN [nan |-> FALSE, inf |-> TRUE, int |-> 0, frac |-> << >>]
    ELSE IF AllDigits(s)
         THEN [nan |-> FALSE, inf |-> FALSE, int |-> DecVal(s), frac |-> << >>]
    ELSE IF \E k \in 1..Len(s) :
                /\ s[k] = "."
                /\ AllDigits(SubSeq(s, 1, k - 1))
                /\ AllDigits(SubSeq(s, k + 1, Len(s)))
                /\ Len(s) > 1
         THEN LET k == CHOOSE j \in 1..Len(s) : s[j] = "."
              IN  [nan  |-> FALSE,
                   inf  |-> FALSE,
                   int  |-> DecVal(SubSeq(s, 1, k - 1)),
                   frac |-> SubSeq(s, k + 1, Len(s))]
         ELSE NaN

\* Math.trunc: the fraction is dropped, NaN stays NaN, Infinity Infinity
MathTrunc(n) == [n EXCEPT !.frac = << >>]

\* path.dirname (posix): trailing slashes are skipped, then the path is cut
\* before the last slash that is not its first character
dirname(p) ==
    LET hasRoot == Len(p) > 0 /\ p[1] = "/"
        ends    == {k \in 2..Len(p) :
                       /\ p[k] = "/"
                       /\ \E j \in (k + 1)..Len(p) : p[j] # "/"}
        none    == IF hasRoot THEN <<"/">> ELSE <<".">>
    IN  IF ends = {} THEN none
        ELSE LET k == CHOOSE e \in ends : \A o \in ends : o <= e
             IN  IF hasRoot /\ k = 2 THEN <<"/", "/">> ELSE SubSeq(p, 1, k - 1)

----------------------------------------------------------------------------
(* Inputs of a run *)

Variants == {"index", "part000"}

\* what the runtime does with a rejection nothing handles
RejectionModes == {"throw", "warn"}

\* the repo inputs of the runs that explore the downloads: the ambient
\* repository, and a string getRepo refuses
RepoStrings == {<< >>, <<"a">>}

\* the repo inputs of the runs that explore the release lookup
AllRepoStrings ==
    {<< >>, <<"a">>, <<"a", "/", "b">>, <<"a", "/">>, <<"/", "b">>, <<"/">>,
     <<"a", "b", "/", "b">>, <<"a", "/", "b", "/", "a">>, <<"a", "/", "/", "b">>}

\* 'latest'
S_latest == <<"l", "a", "t", "e", "s", "t">>

\* 'tags/'
S_tags == <<"t", "a", "g", "s", "/">>

\* the version inputs of the runs that explore the downloads
MainVersions == {<< >>}

\* the version inputs of the runs that explore the release lookup
Versions ==
    {<< >>, S_latest, S_latest \o <<"1">>,
     S_tags \o <<"a">>, S_tags \o <<"a", "/", "b">>, S_tags,
     S_tags \o <<"a", "\n", "b">>, S_tags \o <<"1">>,
     <<"t", "a", "g", "s">>, <<"a">> \o S_tags \o <<"a">>,
     <<"1">>, <<"1", "2">>, <<"1", ".", "5">>, <<"1", ".">>, <<".", "5">>,
     <<".">>, <<"a">>, <<"1", "a">>, <<"0", "7">>,
     S_tags \o <<"a", "\r", "b">>, S_Infinity}

Tokens == {<<"k">>}

\* the target input of the runs that explore the downloads: a path below a
\* directory; the empty target is an input of the runs of the release lookup
Targets == {<<"d", "/", "b">>}

Files == {<<"a">>, <<"b">>}

AssetNames == {<<"a">>, <<"a", "b">>}

\* the asset lists a release can carry: ids are unique, names need not be
AssetLists ==
    UNION {{[i \in 1..n |-> [id |-> i, name |-> names[i]]] :
               names \in [1..n -> AssetNames]} : n \in 0..MaxAssets}

\* github.context.repo
context == [owner |-> <<"x">>, repo |-> <<"y">>]

\* release.data.zipball_url
zipball_url == <<"z">>

----------------------------------------------------------------------------
(* Pure functions of the program *)

\* getRepo throws 'Malformed repo'
getRepoThrows(s) ==
    /\ s # << >>
    /\ Len(Split(s, "/")) < 2

getRepo(s, ctx) ==
    IF s = << >>
    THEN [owner |-> ctx.owner, repo |-> ctx.repo]
    ELSE [owner |-> Split(s, "/")[1], repo |-> Split(s, "/")[2]]

\* const version = core.getInput('version') || 'latest'
version(inVersion) == IF inVersion = << >> THEN S_latest ELSE inVersion

\* the line terminators of a regular expression: LF and CR (and U+2028,
\* U+2029, which the strings of the inputs here do not hold)
LineTerminators == {"\n", "\r"}

\* version.match(/^tags\/(.*)$/): null, or the text after 'tags/'; '.' does
\* not match a line terminator and '$' only matches at the end
tagsMatch(v) ==
    IF /\ Len(v) >= Len(S_tags)
       /\ SubSeq(v, 1, Len(S_tags)) = S_tags
       /\ \A i \in 1..Len(v) : v[i] \notin LineTerminators
    THEN [null |-> FALSE, group1 |-> SubSeq(v, Len(S_tags) + 1, Len(v))]
    ELSE [null |-> TRUE]

\* the tag group taken whether or not it is empty
getRelease_anyTag(owner, repo, v) ==
    IF v = S_latest
    THEN [endpoint |-> "getLatestRelease", owner |-> owner, repo |-> repo]
    ELSE IF ~tagsMatch(v).null
         THEN [endpoint |-> "getReleaseByTag", owner |-> owner, repo |-> repo,
               tag |-> tagsMatch(v).group1]
         ELSE [endpoint |-> "getRelease", owner |-> owner, repo |-> repo,
               release_id |-> MathTrunc(Number(v))]

\* getRelease: the endpoint call it makes
getRelease(owner, repo, v) ==
    IF v = S_latest
    THEN [endpoint |-> "getLatestRelease", owner |-> owner, repo |-> repo]
    ELSE IF ~tagsMatch(v).null /\ tagsMatch(v).group1 # << >>
         THEN [endpoint |-> "getReleaseByTag", owner |-> owner, repo |-> repo,
               tag |-> tagsMatch(v).group1]
         ELSE [endpoint |-> "getRelease", owner |-> owner, repo |-> repo,
               release_id |-> MathTrunc(Number(v))]

filterByFileName(f, asset) == f = asset.name

\* the pattern required to match the whole name
filterByRegex_fullMatch(f, asset) == f = asset.name

filterByRegex(f, asset) == RegExpTest(f, asset.name)

assetFilterFn(regex, f, asset) ==
    IF regex THEN filterByRegex(f, asset) ELSE filterByFileName(f, asset)

RECURSIVE FilterAssets(_, _, _)
\* release.data.assets.filter(assetFilterFn)
FilterAssets(list, regex, f) ==
    IF list = << >> THEN << >>
    ELSE (IF assetFilterFn(regex, f, Head(list)) THEN <<Head(list)>> ELSE << >>)
             \o FilterAssets(Tail(list), regex, f)

\* const target = inputTarget === '' ? file : inputTarget
target(inTarget, f) == IF inTarget = << >> THEN f ELSE inTarget

\* outputPath handed to fetchAssetFile
AssetOutputPath(regex, tgt, asset) == IF regex THEN tgt \o asset.name ELSE tgt

\* outputPath handed to fetchSourceFile
SourceOutputPath(v, tgt, f) ==
    IF v = "index" THEN tgt ELSE tgt \o f \o <<".", "z", "i", "p">>

\* the no-match check left out
NoMatch_skipped(list) == FALSE

\* if (assets.length === 0) throw new Error('Could not find asset id')
NoMatch(list) == Len(list) = 0

\* the value the callback handed to retry returns: the comma expression
\* evaluates baseFetchFile(...), drops its promise and yields the object
\* literal { retries, minTimeout }
CallbackValue == "object"

\* a retry promise that never settles
RetryPromise_neverSettles(val) == "pending"

\* async-retry, runAttempt: Promise.resolve(val).then(resolve).catch(onError).
\* A value that is not a promise fulfils the retry promise at once; only a
\* rejected promise (or a throw of the callback) reaches onError and a retry.
RetryPromise(val) == IF val = "object" THEN "fulfilled" ELSE "pending"

\* printOutput
printOutput(outs) == outs \cup {"version", "name", "body"}

\* the bytes the server answers a download with: asset k is k bytes of
\* value k, the archive one byte 0, so that bodies differ in length
ResponseBody(d) == IF d.kind = "asset" THEN [j \in 1..d.id |-> d.id] ELSE <<0>>

RECURSIVE MkdirP(_, _)
\* mkdir(dir, { recursive: true }): dir and every missing ancestor
MkdirP(ds, dir) ==
    IF dir \in ds \/ dirname(dir) = dir \/ dir = <<".">>
    THEN ds \cup {dir}
    ELSE MkdirP(ds \cup {dir}, dirname(dir))

\* writeFile, first operation: open(path, 'w') creates the file or cuts it
\* to length 0
FileOpen(files, path) ==
    {e \in files : e[1] # path} \cup {<<path, << >> >>}

\* writeFile, second operation: the bytes are written from position 0 of
\* the handle; what the file holds beyond them stays
FileWrite(files, path, bytes) ==
    {e \in files : e[1] # path}
        \cup {<<path, bytes \o SubSeq(e[2], Len(bytes) + 1, Len(e[2]))>> :
                  e \in {f \in files : f[1] = path}}

\* the bytes added to the end of a file that exists
WriteFile_append(files, path, bytes) ==
    {e \in files : e[1] # path}
        \cup {<<path, bytes>> : e \in {x \in {0} : \A f \in files : f[1] # path}}
        \cup {<<path, e[2] \o bytes>> : e \in {f \in files : f[1] = path}}

\* writeFile(path, bytes) with no other file operation in between: the file
\* is opened and the bytes are written
WriteFile(files, path, bytes) ==
    FileWrite(FileOpen(files, path), path, bytes)

----------------------------------------------------------------------------
(* State *)

\* the attempt on which the server first answers with success: at once,
\* after one failure, or never (maxAttempts + 1)
ServerPlans == {1, 2, maxAttempts + 1}

\* the parameters main hands to fetchAssetFile
AssetParameters(id, path) ==
    [id |-> id, outputPath |-> path, owner |-> repoRef.owner,
     repo |-> repoRef.repo, token |-> token]

\* the parameters fetchAssetFile hands to createEndpointOptions: all of its
\* own (src/index.ts), or owner, repo and asset_id: id (part_000)
EndpointParameters(v, params) ==
    IF v = "index" THEN params
    ELSE [owner |-> params.owner, repo |-> params.repo, asset_id |-> params.id]

\* a variable of the route: the parameter of that name, or nothing
RouteVar(params, name) ==
    IF name \in DOMAIN params
    THEN [given |-> TRUE, value |-> params[name]]
    ELSE [given |-> FALSE]

\* octokit.request.endpoint('GET /repos/:owner/:repo/releases/assets/:asset_id',
\* params): the variables of the route are taken from params, a variable
\* without a parameter expands to nothing, and the parameters that are no
\* variable of the route go to the query string of a GET
createEndpointOptions(params) ==
    [method  |-> "GET",
     url     |-> [route    |-> "/repos/:owner/:repo/releases/assets/:asset_id",
                  owner    |-> RouteVar(params, "owner"),
                  repo     |-> RouteVar(params, "repo"),
                  asset_id |-> RouteVar(params, "asset_id"),
                  query    |-> DOMAIN params \ {"owner", "repo", "asset_id"}],
     headers |-> [accept |-> "application/vnd.github.v3+json"]]

\* the endpoint options fetchAssetFile hands to baseFetchFile: part_000 sets
\* their accept header
AssetEndpoint(v, params) ==
    LET endpoint == createEndpointOptions(EndpointParameters(v, params))
    IN  IF v = "index" THEN endpoint
        ELSE [endpoint EXCEPT !.headers =
                  [accept |-> "application/octet-stream"]]

\* the endpoint options fetchSourceFile hands to baseFetchFile: src/index.ts
\* gives no headers
SourceEndpoint(v, url) ==
    [method  |-> "GET",
     url     |-> [direct |-> url],
     headers |-> IF v = "index" THEN [none |-> TRUE]
                 ELSE [accept |-> "application/vnd.github.v3+json"]]

\* the accept header baseFetchFile sends: src/index.ts overrides it
FetchAccept(v, headers) ==
    IF v = "index" THEN "application/octet-stream"
    ELSE IF "accept" \in DOMAIN headers THEN headers.accept ELSE "none"

\* the request baseFetchFile hands to fetch
FetchRequest(v, tok, endpoint) ==
    [method        |-> endpoint.method,
     url           |-> endpoint.url,
     accept        |-> FetchAccept(v, endpoint.headers),
     authorization |-> <<"token", tok>>]

\* a call of fetchAssetFile / fetchSourceFile: retry(...) runs its callback,
\* which issues the HTTP request of baseFetchFile (attempt 1)
NewDownload(kind, id, url, path, plan) ==
    [kind       |-> kind,
     id         |-> id,
     url        |-> url,
     outputPath |-> path,
     request    |-> FetchRequest(variant, token,
                        IF kind = "asset"
                        THEN AssetEndpoint(variant, AssetParameters(id, path))
                        ELSE SourceEndpoint(variant, url)),
     succeedAt  |-> plan,
     attempts   |-> 1,
     response   |-> "none",
     body       |-> "none",
     st         |-> "fetch",
     fd         |-> "closed",
     writes     |-> 0,
     caller     |-> "waiting"]

\* the state of a run before main starts
Start ==
    /\ pc = "start"
    /\ mainError = ""
    /\ repoRef = [owner |-> << >>, repo |-> << >>]
    /\ lookups = 0
    /\ lookupRequest = [endpoint |-> "none"]
    /\ assets = << >>
    /\ filterEvaluated = FALSE
    /\ idx = 0
    /\ awaited = "none"
    /\ downloads = << >>
    /\ fs = {}
    /\ dirs = {}
    /\ outputs = {}
    /\ warnings = {}
    /\ unhandled = {}
    /\ proc = "running"

Init ==
    /\ variant \in Variants
    /\ unhandledRejections \in RejectionModes
    /\ inputRepoString \in RepoStrings
    /\ inputVersion \in MainVersions
    /\ token \in Tokens
    /\ inputTarget \in Targets
    /\ file \in Files
    /\ usesRegex \in BOOLEAN
    /\ onlySourceZip \in BOOLEAN
    /\ releaseAssets \in AssetLists
    /\ Start

\* runs over every version and repo input, with a release of one asset
ResolveInit ==
    /\ variant \in Variants
    /\ unhandledRejections \in RejectionModes
    /\ inputRepoString \in AllRepoStrings
    /\ inputVersion \in Versions
    /\ token \in Tokens
    /\ inputTarget = << >>
    /\ file = <<"a">>
    /\ usesRegex = FALSE
    /\ onlySourceZip \in BOOLEAN
    /\ releaseAssets = <<[id |-> 1, name |-> <<"a">>]>>
    /\ Start

\* main has no continuation ready to run: it has ended, or it awaits I/O
MainBlocked ==
    \/ pc \in {"awaitRelease", "done", "failed"}
    \/ pc \in {"awaitSource", "awaitAsset"} /\ awaited = "pending"

\* the process after a turn: a turn that left a rejection unhandled ends
\* it when the runtime throws on unhandled rejections
AfterTurn(rejected) ==
    IF rejected /\ unhandledRejections = "throw" THEN "exited" ELSE proc

\* the lookup failure swallowed: main goes on waiting for a release
OnLookupFailure_swallowed == "awaitRelease"

\* what the lookup failure does to main: the await rethrows
OnLookupFailure == "failed"

\* the position after asset i of the for..of loop
NextIdx(i) == i + 1

----------------------------------------------------------------------------
(* main *)

\* main, up to the first suspension: getRepo, the inputs, getRelease issued
MainStart ==
    /\ proc = "running"
    /\ pc = "start"
    /\ IF getRepoThrows(inputRepoString)
       THEN /\ pc' = "failed"
            /\ mainError' = "Malformed repo"
            /\ UNCHANGED <<repoRef, lookups, lookupRequest>>
       ELSE /\ repoRef' = getRepo(inputRepoString, context)
            /\ lookups' = lookups + 1
            /\ lookupRequest' = getRelease(getRepo(inputRepoString, context).owner,
                                           getRepo(inputRepoString, context).repo,
                                           version(inputVersion))
            /\ pc' = "awaitRelease"
            /\ UNCHANGED mainError
    /\ UNCHANGED <<inputVars, assets, filterEvaluated, idx, awaited, downloads,
                   fs, dirs, outputs, warnings, unhandled>>
    /\ proc' = AfterTurn(pc' = "failed")

\* the release lookup rejects: main throws
ReleaseLookupFails ==
    /\ proc = "running"
    /\ pc = "awaitRelease"
    /\ pc' = OnLookupFailure
    /\ mainError' = "release lookup"
    /\ UNCHANGED <<inputVars, repoRef, lookups, lookupRequest, assets, filterEvaluated, idx,
                   awaited, downloads, fs, dirs, outputs, warnings, unhandled>>
    /\ proc' = AfterTurn(pc' = "failed")

\* the release arrives, only-source-zip: fetchSourceFile is called and awaited
ReleaseArrivesArchive ==
    /\ proc = "running"
    /\ pc = "awaitRelease"
    /\ onlySourceZip
    /\ \E plan \in ServerPlans :
          downloads' = Append(downloads,
              NewDownload("archive", 0, zipball_url,
                          SourceOutputPath(variant, target(inputTarget, file), file),
                          plan))
    /\ awaited' = RetryPromise(CallbackValue)
    /\ pc' = "awaitSource"
    /\ UNCHANGED <<inputVars, mainError, repoRef, lookups, lookupRequest, assets, filterEvaluated,
                   idx, fs, dirs, outputs, warnings, unhandled>>
    /\ proc' = AfterTurn(pc' = "failed")

\* the for..of loop from position i on, up to its next await: the download
\* of assets[i] is started, or the loop has ended and printOutput runs
LoopFrom(list, i, ds) ==
    IF i <= Len(list)
    THEN /\ \E plan \in ServerPlans :
               downloads' = Append(ds,
                   NewDownload("asset", list[i].id, << >>,
                       AssetOutputPath(usesRegex, target(inputTarget, file),
                                       list[i]),
                       plan))
         /\ idx' = i
         /\ awaited' = RetryPromise(CallbackValue)
         /\ pc' = "awaitAsset"
         /\ UNCHANGED outputs
    ELSE /\ downloads' = ds
         /\ outputs' = printOutput(outputs)
         /\ pc' = "done"
         /\ awaited' = "none"
         /\ UNCHANGED idx

\* the release arrives, asset mode: the filter, the no-match check, and the
\* loop up to its first await
ReleaseArrivesAssets ==
    /\ proc = "running"
    /\ pc = "awaitRelease"
    /\ ~onlySourceZip
    /\ LET matched == FilterAssets(releaseAssets, usesRegex, file) IN
       /\ assets' = matched
       /\ filterEvaluated' = TRUE
       /\ IF NoMatch(matched)
          THEN /\ pc' = "failed"
               /\ mainError' = "Could not find asset id"
               /\ UNCHANGED <<idx, awaited, downloads, outputs>>
          ELSE /\ LoopFrom(matched, 1, downloads)
               /\ UNCHANGED mainError
    /\ UNCHANGED <<inputVars, repoRef, lookups, lookupRequest, fs, dirs, warnings, unhandled>>
    /\ proc' = AfterTurn(pc' = "failed")

\* the caller of retry resumes with the settled retry promise
Resumed(ds, how) == [ds EXCEPT ![Len(ds)].caller = how]

\* main resumes after await fetchSourceFile(...)
ResumeAfterSource ==
    /\ proc = "running"
    /\ pc = "awaitSource"
    /\ awaited \in {"fulfilled", "rejected"}
    /\ downloads' = Resumed(downloads, awaited)
    /\ IF awaited = "fulfilled"
       THEN /\ outputs' = printOutput(outputs)
            /\ pc' = "done"
            /\ UNCHANGED mainError
       ELSE IF variant = "index"
            THEN /\ outputs' = outputs \cup {"Error on retrieve source zip"}
                 /\ pc' = "done"
                 /\ UNCHANGED mainError
            ELSE /\ pc' = "failed"
                 /\ mainError' = "download"
                 /\ UNCHANGED outputs
    /\ awaited' = "none"
    /\ UNCHANGED <<inputVars, repoRef, lookups, lookupRequest, assets, filterEvaluated, idx,
                   fs, dirs, warnings, unhandled>>
    /\ proc' = AfterTurn(pc' = "failed")

\* main resumes after await fetchAssetFile(...): it throws, or the loop goes
\* on from the next asset
ResumeAfterAsset ==
    /\ proc = "running"
    /\ pc = "awaitAsset"
    /\ awaited \in {"fulfilled", "rejected"}
    /\ IF awaited = "rejected"
       THEN /\ pc' = "failed"
            /\ mainError' = "download"
            /\ downloads' = Resumed(downloads, awaited)
            /\ awaited' = "none"
            /\ UNCHANGED <<idx, outputs>>
       ELSE /\ LoopFrom(assets, NextIdx(idx), Resumed(downloads, awaited))
            /\ UNCHANGED mainError
    /\ UNCHANGED <<inputVars, repoRef, lookups, lookupRequest, assets, filterEvaluated,
                   fs, dirs, warnings, unhandled>>
    /\ proc' = AfterTurn(pc' = "failed")

----------------------------------------------------------------------------
(* baseFetchFile: the steps of one download between its suspension points *)

Dl == 1..Len(downloads)

\* every response taken for a success
ResponseOk_always(d) == TRUE

\* if (!response.ok)
ResponseOk(d) == d.attempts >= d.succeedAt

\* await fetch(...) settles with a response; baseFetchFile goes on to read
\* its body: response.text() when it is refused, response.blob() when it
\* is accepted
FetchResponds(i) ==
    /\ proc = "running"
    /\ MainBlocked
    /\ downloads[i].st = "fetch"
    /\ downloads[i].response = "none"
    /\ downloads' = [downloads EXCEPT ![i].response =
                        IF ResponseOk(downloads[i]) THEN "ok" ELSE "refused"]
    /\ UNCHANGED <<inputVars, pc, mainError, repoRef, lookups, lookupRequest, assets,
                   filterEvaluated, idx, awaited, fs, dirs, outputs, warnings,
                   unhandled>>
    /\ proc' = AfterTurn(downloads'[i].st = "rejected")

\* the body has been read.  Refused (await response.text()): the text is
\* logged with core.warning and baseFetchFile throws; nothing holds its
\* promise.  Accepted (await response.blob(), await blob.arrayBuffer()):
\* mkdir is issued; the blob is in memory, so arrayBuffer() settles with no
\* I/O and its continuation runs in the same turn.
BodyRead(i) ==
    /\ proc = "running"
    /\ MainBlocked
    /\ downloads[i].st = "fetch"
    /\ downloads[i].response \in {"ok", "refused"}
    /\ IF downloads[i].response = "ok"
       THEN /\ downloads' = [downloads EXCEPT ![i].st = "mkdir",
                                               ![i].body = "read"]
            /\ UNCHANGED <<warnings, unhandled>>
       ELSE /\ warnings' = warnings \cup {i}
            /\ downloads' = [downloads EXCEPT ![i].st = "rejected",
                                               ![i].body = "read"]
            /\ unhandled' = unhandled \cup {i}
    /\ UNCHANGED <<inputVars, pc, mainError, repoRef, lookups, lookupRequest, assets,
                   filterEvaluated, idx, awaited, fs, dirs, outputs>>
    /\ proc' = AfterTurn(downloads'[i].st = "rejected")

\* the body cannot be read (the stream of the response errors after the
\* headers): await response.text() or await response.blob() rejects, and
\* so does baseFetchFile, with nothing logged; nothing holds its promise
BodyFails(i) ==
    /\ proc = "running"
    /\ MainBlocked
    /\ downloads[i].st = "fetch"
    /\ downloads[i].response \in {"ok", "refused"}
    /\ downloads' = [downloads EXCEPT ![i].st = "rejected",
                                       ![i].body = "error"]
    /\ unhandled' = unhandled \cup {i}
    /\ UNCHANGED <<inputVars, pc, mainError, repoRef, lookups, lookupRequest, assets,
                   filterEvaluated, idx, awaited, fs, dirs, outputs, warnings>>
    /\ proc' = AfterTurn(downloads'[i].st = "rejected")

\* await fetch(...) rejects (network error): baseFetchFile rejects, and
\* nothing holds its promise
FetchFails(i) ==
    /\ proc = "running"
    /\ MainBlocked
    /\ downloads[i].st = "fetch"
    /\ downloads[i].response = "none"
    /\ ~ResponseOk(downloads[i])
    /\ downloads' = [downloads EXCEPT ![i].st = "rejected",
                                       ![i].response = "error"]
    /\ unhandled' = unhandled \cup {i}
    /\ UNCHANGED <<inputVars, pc, mainError, repoRef, lookups, lookupRequest, assets,
                   filterEvaluated, idx, awaited, fs, dirs, outputs, warnings>>
    /\ proc' = AfterTurn(downloads'[i].st = "rejected")

\* await mkdir(dirname(outputPath), { recursive: true }); writeFile is issued
MkdirDone(i) ==
    /\ proc = "running"
    /\ MainBlocked
    /\ downloads[i].st = "mkdir"
    /\ dirs' = MkdirP(dirs, dirname(downloads[i].outputPath))
    /\ downloads' = [downloads EXCEPT ![i].st = "writeFile"]
    /\ UNCHANGED <<inputVars, pc, mainError, repoRef, lookups, lookupRequest, assets,
                   filterEvaluated, idx, awaited, fs, outputs, warnings,
                   unhandled>>
    /\ proc' = AfterTurn(downloads'[i].st = "rejected")

\* writeFile(outputPath, bytes), the open: the file exists and is empty
WriteOpens(i) ==
    /\ proc = "running"
    /\ MainBlocked
    /\ downloads[i].st = "writeFile"
    /\ downloads[i].fd = "closed"
    /\ fs' = FileOpen(fs, downloads[i].outputPath)
    /\ downloads' = [downloads EXCEPT ![i].fd = "open"]
    /\ UNCHANGED <<inputVars, pc, mainError, repoRef, lookups, lookupRequest, assets,
                   filterEvaluated, idx, awaited, dirs, outputs, warnings,
                   unhandled>>
    /\ proc' = AfterTurn(downloads'[i].st = "rejected")

\* writeFile(outputPath, bytes), the write through the open handle
WriteWrites(i) ==
    /\ proc = "running"
    /\ MainBlocked
    /\ downloads[i].st = "writeFile"
    /\ downloads[i].fd = "open"
    /\ fs' = FileWrite(fs, downloads[i].outputPath, ResponseBody(downloads[i]))
    /\ downloads' = [downloads EXCEPT ![i].fd = "flushed",
                                      ![i].writes = @ + 1]
    /\ UNCHANGED <<inputVars, pc, mainError, repoRef, lookups, lookupRequest, assets,
                   filterEvaluated, idx, awaited, dirs, outputs, warnings,
                   unhandled>>
    /\ proc' = AfterTurn(downloads'[i].st = "rejected")

\* await writeFile(outputPath, bytes) returns once the handle is closed:
\* baseFetchFile fulfils
WriteDone(i) ==
    /\ proc = "running"
    /\ MainBlocked
    /\ downloads[i].st = "writeFile"
    /\ downloads[i].fd = "flushed"
    /\ downloads' = [downloads EXCEPT ![i].st = "written",
                                      ![i].fd = "closed"]
    /\ UNCHANGED <<inputVars, pc, mainError, repoRef, lookups, lookupRequest, assets,
                   filterEvaluated, idx, awaited, fs, dirs, outputs, warnings,
                   unhandled>>
    /\ proc' = AfterTurn(downloads'[i].st = "rejected")

----------------------------------------------------------------------------

MainStep ==
    \/ MainStart
    \/ ReleaseLookupFails
    \/ ReleaseArrivesArchive
    \/ ReleaseArrivesAssets
    \/ ResumeAfterSource
    \/ ResumeAfterAsset

DownloadStep(i) ==
    \/ FetchResponds(i)
    \/ BodyRead(i)
    \/ BodyFails(i)
    \/ FetchFails(i)
    \/ MkdirDone(i)
    \/ WriteOpens(i)
    \/ WriteWrites(i)
    \/ WriteDone(i)

Next ==
    \/ MainStart
    \/ ReleaseLookupFails
    \/ ReleaseArrivesArchive
    \/ ReleaseArrivesAssets
    \/ ResumeAfterSource
    \/ ResumeAfterAsset
    \/ \E i \in Dl : FetchResponds(i)
    \/ \E i \in Dl : BodyRead(i)
    \/ \E i \in Dl : BodyFails(i)
    \/ \E i \in Dl : FetchFails(i)
    \/ \E i \in Dl : MkdirDone(i)
    \/ \E i \in Dl : WriteOpens(i)
    \/ \E i \in Dl : WriteWrites(i)
    \/ \E i \in Dl : WriteDone(i)

Spec == Init /\ [][Next]_vars

ResolveSpec == ResolveInit /\ [][Next]_vars

\* while the process runs, the event loop runs every continuation that is
\* ready, and every HTTP exchange and file operation eventually returns;
\* a process that has exited takes no step
FairSpec ==
    /\ Spec
    /\ WF_vars(MainStep)
    /\ \A i \in 1..(MaxAssets + 1) : WF_vars(i \in Dl /\ DownloadStep(i))

----------------------------------------------------------------------------
(* Properties *)

Settled(d) == d.st \in {"written", "rejected"}

Published == outputs \cap {"version", "name", "body"} # {}

\* C1: a download whose every HTTP attempt fails makes exactly maxAttempts
\* attempts and then raises the failure to its caller: it never stops with
\* fewer attempts, never makes more, and never reports success.
C1_AlwaysFailingExhaustsRetries ==
    \A i \in Dl :
        LET d == downloads[i] IN
        d.succeedAt > maxAttempts =>
            /\ d.attempts <= maxAttempts
            /\ d.st = "rejected" => d.attempts = maxAttempts
            /\ d.caller # "waiting" =>
                   d.caller = "rejected" /\ d.attempts = maxAttempts

\* C2: a download whose server fails attempts 1..k-1 and accepts attempt k,
\* k <= maxAttempts, makes exactly k attempts, writes the body exactly once,
\* and its caller resumes with success only after that write.
C2_SucceedsOnAttemptK ==
    \A i \in Dl :
        LET d == downloads[i] IN
        d.succeedAt <= maxAttempts =>
            /\ d.attempts <= d.succeedAt
            /\ d.writes <= 1
            /\ Settled(d) => d.st = "written" /\ d.attempts = d.succeedAt
            /\ d.caller # "waiting" =>
                   /\ d.caller = "fulfilled"
                   /\ d.st = "written"
                   /\ d.writes = 1
                   /\ d.attempts = d.succeedAt

\* C3: in asset mode downloads never overlap: at most one download is in
\* flight, and a download has started only when every earlier one is settled
\* (body written, or failed for good).
C3_AtMostOneInFlight ==
    ~onlySourceZip =>
        /\ Cardinality({i \in Dl : ~Settled(downloads[i])}) <= 1
        /\ \A i \in Dl : i < Len(downloads) => Settled(downloads[i])

\* C4: the release outputs are published only after the bodies are on disk:
\* in asset mode every matched asset has been written, in archive mode the
\* archive has been written.
C4_PublishedAfterWrites ==
    Published =>
        /\ Len(downloads) = (IF onlySourceZip THEN 1 ELSE Len(assets))
        /\ \A i \in Dl : downloads[i].st = "written"

\* C5: in asset mode a download that has failed for good is fatal: main does
\* not end in Done, no later asset's download has been started, and the
\* release outputs are not published.
C5_AssetFailureIsFatal ==
    ~onlySourceZip =>
        \A i \in Dl :
            downloads[i].st = "rejected" =>
                /\ i = Len(downloads)
                /\ pc # "done"
                /\ ~Published

\* no asset of the release satisfies the match predicate of the inputs
C6_NoAssetMatches ==
    \A k \in 1..Len(releaseAssets) :
        IF usesRegex
        THEN ~RegExpTest(file, releaseAssets[k].name)
        ELSE releaseAssets[k].name # file

\* C6: in asset mode, when no asset of the release matches, no download is
\* ever requested, no file is written and no output is published, and once
\* the release has arrived the run has failed with the no-match error.
C6_NoMatchFailsBeforeDownload ==
    (~onlySourceZip /\ C6_NoAssetMatches) =>
        /\ downloads = << >>
        /\ fs = {}
        /\ dirs = {}
        /\ outputs = {}
        /\ filterEvaluated =>
               pc = "failed" /\ mainError = "Could not find asset id"

\* a release that carries assets, none of which matches, has been refused
C6_Witness ==
    /\ ~onlySourceZip
    /\ releaseAssets # << >>
    /\ C6_NoAssetMatches
    /\ filterEvaluated
    /\ pc = "failed"
    /\ mainError = "Could not find asset id"

\* C7: with only-source-zip the run makes one download, of the release's
\* archive URL, to the path target + file + ".zip", and neither evaluates
\* the asset filter nor downloads an asset.
C7_ArchiveOnlyDownload ==
    onlySourceZip =>
        /\ Len(downloads) <= 1
        /\ pc = "done" => Len(downloads) = 1
        /\ ~filterEvaluated
        /\ \A i \in Dl :
               /\ downloads[i].kind = "archive"
               /\ downloads[i].url = zipball_url
               /\ downloads[i].outputPath =
                      target(inputTarget, file) \o file \o <<".", "z", "i", "p">>
        /\ \A e \in fs :
               e[1] = target(inputTarget, file) \o file \o <<".", "z", "i", "p">>

\* C8: the release lookup is requested once per run and never again; when it
\* fails the run has failed, with no download requested, no file written and
\* no output published.
C8_LookupOnceAndFatal ==
    /\ lookups <= 1
    /\ pc \notin {"start"} /\ mainError # "Malformed repo" => lookups = 1
    /\ mainError = "release lookup" =>
           /\ pc = "failed"
           /\ downloads = << >>
           /\ fs = {}
           /\ dirs = {}
           /\ outputs = {}

\* the lookup was requested and failed
C8_Witness ==
    /\ mainError = "release lookup"
    /\ pc = "failed"
    /\ lookups = 1

\* C9: once main has ended, a failed archive download has been recorded in
\* the output 'Error on retrieve source zip' with the run not aborted
\* (src/index.ts), or has aborted the run (src/unnamed/part_000).
C9_ArchiveFailureHandling ==
    (onlySourceZip /\ pc \in {"done", "failed"}) =>
        \A i \in Dl :
            downloads[i].st = "rejected" =>
                IF variant = "index"
                THEN pc = "done" /\ "Error on retrieve source zip" \in outputs
                ELSE pc = "failed"

\* C10: every run ends, and stays, in exactly one of Done and Failed.
C10_Terminates == <>[](pc = "done") \/ <>[](pc = "failed")

\* a run over several matched assets has ended in Done with every download
\* settled
C10_Witness ==
    /\ pc = "done"
    /\ Len(downloads) >= 2
    /\ \A i \in Dl : Settled(downloads[i])

----------------------------------------------------------------------------
(* Properties of the release lookup and of the repo input *)

\* the version handed to getRelease
C11_Version == IF inputVersion = << >> THEN S_latest ELSE inputVersion

C11_HasTagsPrefix ==
    /\ Len(C11_Version) >= Len(S_tags)
    /\ SubSeq(C11_Version, 1, Len(S_tags)) = S_tags

C11_Tag == SubSeq(C11_Version, Len(S_tags) + 1, Len(C11_Version))

C11_Latest ==
    [endpoint |-> "getLatestRelease", owner |-> repoRef.owner, repo |-> repoRef.repo]

C11_ByTag ==
    [endpoint |-> "getReleaseByTag", owner |-> repoRef.owner,
     repo |-> repoRef.repo, tag |-> C11_Tag]

C11_ById ==
    [endpoint |-> "getRelease", owner |-> repoRef.owner, repo |-> repoRef.repo,
     release_id |-> MathTrunc(Number(C11_Version))]

\* C11 as stated: getRelease calls one endpoint: 'latest' the latest-release
\* endpoint; every version of the form 'tags/<tag>' the release-by-tag
\* endpoint with tag = <tag>; every other version the release-by-id endpoint
\* with the version coerced to a number and truncated (NaN when not numeric).
C11_EndpointByPrefix ==
    lookups = 1 =>
        IF C11_Version = S_latest THEN lookupRequest = C11_Latest
        ELSE IF C11_HasTagsPrefix THEN lookupRequest = C11_ByTag
        ELSE lookupRequest = C11_ById

\* C11 amended: as above, but a version 'tags/<tag>' goes to the
\* release-by-tag endpoint only when <tag> is not empty and holds no line
\* terminator (LF, CR); 'tags/' alone and a tag with a line break go to the
\* release-by-id endpoint, with NaN.
C11_EndpointChoice ==
    lookups = 1 =>
        IF C11_Version = S_latest THEN lookupRequest = C11_Latest
        ELSE IF /\ C11_HasTagsPrefix
                /\ C11_Tag # << >>
                /\ \A i \in 1..Len(C11_Tag) : C11_Tag[i] \notin {"\n", "\r"}
             THEN lookupRequest = C11_ByTag
             ELSE /\ lookupRequest = C11_ById
                  /\ C11_HasTagsPrefix => lookupRequest.release_id.nan

\* the lookup for version 'tags/' went to the release-by-id endpoint with NaN
C11_Witness ==
    /\ lookups = 1
    /\ inputVersion = S_tags
    /\ lookupRequest.endpoint = "getRelease"
    /\ lookupRequest.release_id.nan

C12_HasSlash == \E i \in 1..Len(inputRepoString) : inputRepoString[i] = "/"

C12_FirstSlash ==
    CHOOSE i \in 1..Len(inputRepoString) :
        /\ inputRepoString[i] = "/"
        /\ \A j \in 1..(i - 1) : inputRepoString[j] # "/"

C12_Owner == SubSeq(inputRepoString, 1, C12_FirstSlash - 1)

C12_Name == SubSeq(inputRepoString, C12_FirstSlash + 1, Len(inputRepoString))

\* C12: once getRepo has run: for the empty string the result is the ambient
\* owner/name; a non-empty string with no '/', or with an empty owner or name
\* half, is refused with 'Malformed repo' and nothing else happens; a string
\* owner/name with one '/' and two non-empty halves gives exactly that pair.
C12_GetRepo ==
    pc # "start" =>
        IF inputRepoString = << >>
        THEN repoRef = [owner |-> context.owner, repo |-> context.repo]
                 /\ mainError # "Malformed repo"
        ELSE IF ~C12_HasSlash \/ C12_Owner = << >> \/ C12_Name = << >>
             THEN /\ mainError = "Malformed repo"
                  /\ pc = "failed"
                  /\ lookups = 0
             ELSE (\A i \in 1..Len(C12_Name) : C12_Name[i] # "/") =>
                      /\ repoRef = [owner |-> C12_Owner, repo |-> C12_Name]
                      /\ mainError # "Malformed repo"

----------------------------------------------------------------------------
(* Properties of the downloads started and of their requests *)

\* the match predicate of the inputs
C13_Matches(a) ==
    IF usesRegex THEN RegExpTest(file, a.name) ELSE a.name = file

C13_Expected == SelectSeq(releaseAssets, C13_Matches)

C13_Path(a) ==
    IF usesRegex
    THEN (IF inputTarget = << >> THEN file ELSE inputTarget) \o a.name
    ELSE (IF inputTarget = << >> THEN file ELSE inputTarget)

\* C13: in asset mode the downloads started are, in order, those of the
\* assets of the release that satisfy the predicate, each with output path
\* target (exact mode) or target + asset.name (pattern mode); when main has
\* ended in Done every such asset has had its download started, and a file
\* on disk lies at the path of the download that wrote it.
C13_DownloadsAreTheMatches ==
    ~onlySourceZip =>
        /\ Len(downloads) <= Len(C13_Expected)
        /\ \A i \in Dl :
               /\ downloads[i].kind = "asset"
               /\ downloads[i].id = C13_Expected[i].id
               /\ downloads[i].outputPath = C13_Path(C13_Expected[i])
               /\ downloads[i].st = "written" =>
                      \E e \in fs : e[1] = C13_Path(C13_Expected[i])
        /\ pc = "done" => Len(downloads) = Len(C13_Expected)

\* the release carries more assets than match, and the matched ones were
\* downloaded and written
C13_Witness ==
    /\ ~onlySourceZip
    /\ pc = "done"
    /\ Len(downloads) >= 1
    /\ Len(downloads) < Len(releaseAssets)
    /\ \A i \in Dl : downloads[i].st = "written"

\* C14: every asset download request comes from the asset-download route
\* with the resolved owner, the resolved repo and the id of the matched
\* asset, accepts the binary-stream media type, and carries the token.
C14_AssetRequest ==
    \A i \in Dl :
        downloads[i].kind = "asset" =>
            /\ downloads[i].request.method = "GET"
            /\ downloads[i].request.url.route =
                   "/repos/:owner/:repo/releases/assets/:asset_id"
            /\ downloads[i].request.url.owner =
                   [given |-> TRUE, value |-> repoRef.owner]
            /\ downloads[i].request.url.repo =
                   [given |-> TRUE, value |-> repoRef.repo]
            /\ downloads[i].request.url.asset_id =
                   [given |-> TRUE, value |-> assets[i].id]
            /\ downloads[i].request.accept = "application/octet-stream"
            /\ downloads[i].request.authorization = <<"token", token>>

\* C15: every archive download request goes straight to the archive URL of
\* the release, accepts the JSON media type of the API and not the
\* binary-stream one, and carries the token in the form asset downloads use.
C15_ArchiveRequest ==
    \A i \in Dl :
        downloads[i].kind = "archive" =>
            /\ downloads[i].request.method = "GET"
            /\ downloads[i].request.url = [direct |-> zipball_url]
            /\ downloads[i].request.accept = "application/vnd.github.v3+json"
            /\ downloads[i].request.authorization = <<"token", token>>

----------------------------------------------------------------------------
(* Properties of the file system *)

\* C16: a successful download done again on the same output path with the
\* same body changes nothing: while the file a download wrote still holds
\* its body, its mkdir and its writeFile done once more leave the
\* directories and the files as they are.
C16_DownloadIdempotent ==
    \A i \in Dl :
        LET d == downloads[i] IN
        (d.st = "written" /\ <<d.outputPath, ResponseBody(d)>> \in fs) =>
            /\ MkdirP(dirs, dirname(d.outputPath)) = dirs
            /\ WriteFile(fs, d.outputPath, ResponseBody(d)) = fs

\* a download has written its body below a directory it had to create
C16_Witness ==
    \E i \in Dl :
        /\ downloads[i].st = "written"
        /\ <<downloads[i].outputPath, ResponseBody(downloads[i])>> \in fs
        /\ dirname(downloads[i].outputPath) = <<"d">>
        /\ <<"d">> \in dirs

\* the steps of download i that C17 speaks about, but for the warning: no
\* step of a download whose response is refused (the arrival of the
\* response, the reading of its body) changes a file or a directory, and
\* the step that ends the reading rejects; a step of writeFile (open,
\* write) belongs to a download whose response the server answered with
\* success, and the parent directory of the path exists before it
C17_DownloadFrame(i) ==
    /\ (/\ downloads'[i].response = "refused"
        /\ \/ downloads'[i].response # downloads[i].response
           \/ downloads'[i].st # downloads[i].st) =>
           /\ fs' = fs
           /\ dirs' = dirs
           /\ downloads[i].attempts < downloads[i].succeedAt
           /\ downloads'[i].st # downloads[i].st =>
                  /\ downloads'[i].st = "rejected"
                  /\ i \in unhandled'
    /\ (\/ downloads'[i].writes > downloads[i].writes
        \/ downloads'[i].fd # downloads[i].fd) =>
           /\ downloads[i].response = "ok"
           /\ downloads[i].attempts >= downloads[i].succeedAt
           /\ dirname(downloads[i].outputPath) \in dirs
           /\ \E e \in fs' : e[1] = downloads[i].outputPath

\* files and directories change in no other step
C17_OnlyWritersChange ==
    /\ fs' # fs =>
           \E i \in Dl : /\ downloads[i].response = "ok"
                         /\ downloads[i].st = "writeFile"
                         /\ downloads'[i].fd # downloads[i].fd
    /\ dirs' # dirs =>
           \E i \in Dl : /\ downloads[i].response = "ok"
                         /\ downloads[i].st = "mkdir"
                         /\ downloads'[i].st = "writeFile"

\* C17 as stated: a refused download changes no file and no directory,
\* logs the warning with the response body and rejects, whatever happens
\* to the body; files are written only for an accepted response, after the
\* parent directory exists.
C17_RefusedAlwaysWarns ==
    [][/\ \A i \in Dl :
              /\ C17_DownloadFrame(i)
              /\ (/\ downloads'[i].response = "refused"
                  /\ downloads'[i].st # downloads[i].st) => i \in warnings'
       /\ C17_OnlyWritersChange
      ]_vars

\* C17 amended: as above, but the warning is logged exactly when the body
\* of the refused response could be read; when reading it fails the
\* download rejects with nothing logged.
C17_RefusedLeavesFilesAlone ==
    [][/\ \A i \in Dl :
              /\ C17_DownloadFrame(i)
              /\ (/\ downloads'[i].response = "refused"
                  /\ downloads'[i].st # downloads[i].st) =>
                     (i \in warnings' <=> downloads'[i].body = "read")
              /\ i \in warnings' => downloads'[i].response = "refused"
       /\ C17_OnlyWritersChange
      ]_vars

\* one download was refused, logged and rejected, another wrote its file
\* into the directory made for it
C17_Witness ==
    \E i, j \in Dl :
        /\ downloads[i].response = "refused"
        /\ downloads[i].st = "rejected"
        /\ downloads[i].body = "read"
        /\ i \in warnings
        /\ downloads[j].st = "written"
        /\ dirname(downloads[j].outputPath) = <<"d">>
        /\ <<"d">> \in dirs
        /\ \E e \in fs : e[1] = downloads[j].outputPath

\* C18: once main has returned or thrown, every download is settled (no
\* request in flight, no write still to come) and no download failure has
\* gone unobserved by main.
C18_NothingAfterMain ==
    pc \in {"done", "failed"} =>
        /\ \A i \in Dl : Settled(downloads[i])
        /\ unhandled = {}

\* C19: when the run is over, a path that several matched assets were
\* written to holds the body of the last of them in the order of the
\* release.
C19_LastAssetWins ==
    (~onlySourceZip /\ pc = "done" /\ \A i \in Dl : Settled(downloads[i])) =>
        \A i \in Dl :
            (/\ downloads[i].st = "written"
             /\ \A j \in Dl : (j > i /\ downloads[j].st = "written") =>
                                  downloads[j].outputPath # downloads[i].outputPath)
            => <<downloads[i].outputPath, ResponseBody(downloads[i])>> \in fs

====
